---- MODULE Spec2Model ----
(***************************************************************************)
(* Model of the exemplar reservoir of the metrics SDK                      *)
(* (exemplar/ExemplarReservoir.ts): StorageItem and                        *)
(* FixedSizeExemplarReservoirBase.                                         *)
(*                                                                         *)
(* JavaScript objects are references.  The attribute maps handed to        *)
(* offerMeasurement live in `heap`; a StorageItem and an Exemplar hold the *)
(* identity of such a map, never a copy of it, exactly as the code does.   *)
(*                                                                         *)
(* The second part models makeGrpcClientRemoteCall of the gRPC             *)
(* instrumentation (grpc-js/clientUtils.ts): the patched callback of a     *)
(* unary or client-stream call and the 'error' and 'status' listeners of a *)
(* server-stream or bidi call, which end the call's span.                  *)
(***************************************************************************)
EXTENDS Integers, Sequences, FiniteSets, TLC

\* ------------------------------------------------------------------ bounds
\* Largest capacity a reservoir is constructed with.
MaxSize == 2

\* Most events gRPC emits on one client call.
MaxEvents == 3

\* ------------------------------------------------------------ value domains
\* undefined, as the value of an optional string (spanId?, traceId?).
Undefined == "undefined"
\* A value that may be missing (T | null, T | undefined) is the sequence <<>>
\* when missing and <<v>> when present.
None == <<>>
Some(v) == <<v>>
\* The null reference stored in StorageItem.attributes.
NullRef == 0

\* Attribute keys and scalar attribute values.
Keys == {"a", "b"}
AttrVals == {1, 2}
\* Every attribute map over Keys (a JavaScript object with those own keys).
AttrMaps == UNION {[D -> AttrVals] : D \in SUBSET Keys}

\* The measurements the producers record: (value, timestamp, ctx).  The first
\* carries no span and equals the defaults of a StorageItem; the second
\* differs from it in every field.
Measurements ==
  {[value |-> 0, timestamp |-> <<0, 0>>, ctx |-> [span |-> None]],
   [value |-> 5, timestamp |-> <<1, 500>>,
    ctx |-> [span |-> Some([spanId |-> "s1", traceId |-> "t1"])]]}

\* The identities of the attribute-map objects the producers own.
ObjIds == {1, 2}
\* What an index-selection strategy may answer: the sentinel -1, the valid
\* indices, and values outside the storage on both sides (_size and, for a
\* capacity below MaxSize, _size + 1).
Indices == -2..MaxSize

\* GRPC_STATUS_CODE_OK of ../status-code.
GRPC_STATUS_CODE_OK == 0
\* The errors gRPC reports (grpcJs.ServiceError): built from a status that is
\* not OK, so their code is not 0.
ServiceErrors ==
  {[code |-> c, name |-> "Error", message |-> "failed"] : c \in {2, 14}}
\* The statuses gRPC reports on a response stream.
StatusObjects == {[code |-> c] : c \in {GRPC_STATUS_CODE_OK, 2}}
\* What gRPC passes to the callback of a unary or client-stream call.
CallbackResults ==
  {[err |-> None, res |-> Some("response")]}
    \cup {[err |-> Some(e), res |-> None] : e \in ServiceErrors}

VARIABLES
  _size,              \* FixedSizeExemplarReservoirBase._size
  _reservoirStorage,  \* FixedSizeExemplarReservoirBase._reservoirStorage: index -> StorageItem
  heap,               \* the producers' attribute-map objects: identity -> own properties
  call,               \* the operation that ran last, with its outcome
  retVal,             \* what the last collectAndReset returned (<<>> after any other call)
  offers,             \* history: per slot, the last offer forwarded to it in this period
  collected,          \* history: the period that the last collectAndReset closed
  before,             \* history: the slots and maps before the last call, if it was a drop by -1
  kept,               \* an Exemplar a collector still holds, with what it read in it
  hook,               \* history: the invocations of reset() during the last call
  original,           \* GrpcClientFunc: the client method (responseStream)
  args,               \* the function among the call's arguments: none, the user's or the patched one
  metadata,           \* grpcJs.Metadata: whether the trace context is injected
  rpc,                \* the call original.apply returned: listeners, call[CALL_SPAN_ENDED]
  spanEnded,          \* the closure variable spanEnded
  span,               \* the Span of the call
  delivered,          \* history: what gRPC emitted on the call or passed to the callback
  log,                \* history: what the listener or callback that ran last did, in order
  userCallback        \* history: the invocations of the user's callback

\* The exemplar reservoir.
reservoirVars ==
  <<_size, _reservoirStorage, heap, call, retVal, offers, collected, before, kept, hook>>
\* The gRPC client call.
clientVars ==
  <<original, args, metadata, rpc, spanEnded, span, delivered, log, userCallback>>

vars == <<reservoirVars, clientVars>>

\* ---------------------------------------------------------------- helpers
\* obj[key] of JavaScript: the own property, or undefined.
Get(obj, key) == IF key \in DOMAIN obj THEN Some(obj[key]) ELSE None

\* delete obj[key]
Delete(obj, key) == [k \in DOMAIN obj \ {key} |-> obj[k]]

\* trace.getSpanContext(ctx)
GetSpanContext(ctx) == ctx.span

\* spanContext?.spanId, spanContext?.traceId
OptSpanId(sc) == IF sc = None THEN Undefined ELSE sc[1].spanId
OptTraceId(sc) == IF sc = None THEN Undefined ELSE sc[1].traceId

\* ------------------------------------------------------------- StorageItem
\* The field initialisers of StorageItem; spanId and traceId start undefined.
NewStorageItem ==
  [value |-> 0, attributes |-> NullRef, timestamp |-> <<0, 0>>,
   spanId |-> Undefined, traceId |-> Undefined]

\* Faulty variant: an occupied item keeps what it holds.
ItemOfferMeasurement_KeepFirst(item, value, timestamp, attributes, ctx) ==
  IF item.attributes # NullRef THEN item
  ELSE [value |-> value, attributes |-> attributes, timestamp |-> timestamp,
        spanId |-> OptSpanId(GetSpanContext(ctx)),
        traceId |-> OptTraceId(GetSpanContext(ctx))]

\* Faulty variant: the ids are written only when the context carries a span.
ItemOfferMeasurement_KeepsIds(item, value, timestamp, attributes, ctx) ==
  [value |-> value, attributes |-> attributes, timestamp |-> timestamp,
   spanId |-> IF GetSpanContext(ctx) = None THEN item.spanId
              ELSE OptSpanId(GetSpanContext(ctx)),
   traceId |-> IF GetSpanContext(ctx) = None THEN item.traceId
               ELSE OptTraceId(GetSpanContext(ctx))]

\* Faulty variant: an occupied item keeps its timestamp.
ItemOfferMeasurement_KeepsTimestamp(item, value, timestamp, attributes, ctx) ==
  [value |-> value, attributes |-> attributes,
   timestamp |-> IF item.attributes # NullRef THEN item.timestamp ELSE timestamp,
   spanId |-> OptSpanId(GetSpanContext(ctx)),
   traceId |-> OptTraceId(GetSpanContext(ctx))]

\* StorageItem.offerMeasurement: `attributes` is the identity of the map.
\* The body is synchronous, so a call's five assignments are one step: no
\* other call runs between them.
ItemOfferMeasurement(item, value, timestamp, attributes, ctx) ==
  LET spanContext == GetSpanContext(ctx) IN
  [value |-> value,
   attributes |-> attributes,
   timestamp |-> timestamp,
   spanId |-> OptSpanId(spanContext),
   traceId |-> OptTraceId(spanContext)]

\* Faulty variant: a key of pointAttributes is deleted whatever its value.
RECURSIVE DeleteMatching_ByKey(_, _, _)
DeleteMatching_ByKey(keys, pointAttributes, currentAttriubtes) ==
  IF keys = {} THEN currentAttriubtes
  ELSE LET key == CHOOSE k \in keys : TRUE IN
       DeleteMatching_ByKey(keys \ {key}, pointAttributes, Delete(currentAttriubtes, key))

\* Object.keys(pointAttributes).forEach(key => { if (pointAttributes[key] ===
\* currentAttriubtes[key]) delete currentAttriubtes[key] }), over the keys
\* still to visit.
RECURSIVE DeleteMatching(_, _, _)
DeleteMatching(keys, pointAttributes, currentAttriubtes) ==
  IF keys = {} THEN currentAttriubtes
  ELSE LET key == CHOOSE k \in keys : TRUE
           next == IF Get(pointAttributes, key) = Get(currentAttriubtes, key)
                   THEN Delete(currentAttriubtes, key)
                   ELSE currentAttriubtes
       IN DeleteMatching(keys \ {key}, pointAttributes, next)

\* Faulty variant: the item is read but not reset.
ItemGetAndReset_NoReset(item, h, pointAttributes) ==
  IF item.attributes # NullRef
  THEN [res  |-> Some([filteredAttributes |-> item.attributes,
                       value |-> item.value,
                       timestamp |-> item.timestamp,
                       spanId |-> item.spanId,
                       traceId |-> item.traceId]),
        item |-> item,
        heap |-> [h EXCEPT ![item.attributes] =
                    DeleteMatching(DOMAIN pointAttributes, pointAttributes, @)]]
  ELSE [res |-> None, item |-> item, heap |-> h]

\* Faulty variant: the reset clears every field but attributes.
ItemGetAndReset_KeepsAttributes(item, h, pointAttributes) ==
  IF item.attributes # NullRef
  THEN [res  |-> Some([filteredAttributes |-> item.attributes,
                       value |-> item.value,
                       timestamp |-> item.timestamp,
                       spanId |-> item.spanId,
                       traceId |-> item.traceId]),
        item |-> [value |-> 0, attributes |-> item.attributes,
                  timestamp |-> <<0, 0>>,
                  spanId |-> Undefined, traceId |-> Undefined],
        heap |-> [h EXCEPT ![item.attributes] =
                    DeleteMatching(DOMAIN pointAttributes, pointAttributes, @)]]
  ELSE [res |-> None, item |-> item, heap |-> h]

\* Faulty variant: an item counts as empty when its fields equal the reset
\* defaults and its attributes map is null or empty.
ItemGetAndReset_OccupiedByValue(item, h, pointAttributes) ==
  IF /\ item.attributes # NullRef
     /\ ~(/\ item.value = 0
          /\ item.timestamp = <<0, 0>>
          /\ h[item.attributes] = <<>>
          /\ item.spanId = Undefined
          /\ item.traceId = Undefined)
  THEN [res  |-> Some([filteredAttributes |-> item.attributes,
                       value |-> item.value,
                       timestamp |-> item.timestamp,
                       spanId |-> item.spanId,
                       traceId |-> item.traceId]),
        item |-> [value |-> 0, attributes |-> NullRef, timestamp |-> <<0, 0>>,
                  spanId |-> Undefined, traceId |-> Undefined],
        heap |-> [h EXCEPT ![item.attributes] =
                    DeleteMatching(DOMAIN pointAttributes, pointAttributes, @)]]
  ELSE [res |-> None,
        item |-> [value |-> 0, attributes |-> NullRef, timestamp |-> <<0, 0>>,
                  spanId |-> Undefined, traceId |-> Undefined],
        heap |-> h]

\* StorageItem.getAndReset on `item` with the heap `h`: the returned Exemplar
\* (or null), the item afterwards and the heap afterwards.  The map is
\* filtered in place and the Exemplar refers to that same map.
ItemGetAndReset(item, h, pointAttributes) ==
  LET currentAttriubtes == item.attributes IN
  IF currentAttriubtes # NullRef
  THEN [res  |-> Some([filteredAttributes |-> currentAttriubtes,
                       value |-> item.value,
                       timestamp |-> item.timestamp,
                       spanId |-> item.spanId,
                       traceId |-> item.traceId]),
        item |-> [value |-> 0, attributes |-> NullRef, timestamp |-> <<0, 0>>,
                  spanId |-> Undefined, traceId |-> Undefined],
        heap |-> [h EXCEPT ![currentAttriubtes] =
                    DeleteMatching(DOMAIN pointAttributes, pointAttributes, @)]]
  ELSE [res |-> None, item |-> item, heap |-> h]

\* ------------------------------------------- FixedSizeExemplarReservoirBase
\* Faulty variant: the loop stops one item early.
RECURSIVE CollectFrom_OffByOne(_, _, _, _, _, _)
CollectFrom_OffByOne(i, storage, h, pointAttributes, acc, slots) ==
  IF i >= Cardinality(DOMAIN storage) - 1
  THEN [retVal |-> acc, storage |-> storage, heap |-> h, slots |-> slots]
  ELSE LET r == ItemGetAndReset(storage[i], h, pointAttributes) IN
       CollectFrom_OffByOne(i + 1, [storage EXCEPT ![i] = r.item], r.heap,
                            pointAttributes,
                            IF r.res # None THEN Append(acc, r.res[1]) ELSE acc,
                            IF r.res # None THEN Append(slots, i) ELSE slots)

\* Faulty variant: results are put at the front of the output instead of pushed.
RECURSIVE CollectFrom_Descending(_, _, _, _, _, _)
CollectFrom_Descending(i, storage, h, pointAttributes, acc, slots) ==
  IF i >= Cardinality(DOMAIN storage)
  THEN [retVal |-> acc, storage |-> storage, heap |-> h, slots |-> slots]
  ELSE LET r == ItemGetAndReset(storage[i], h, pointAttributes) IN
       CollectFrom_Descending(i + 1, [storage EXCEPT ![i] = r.item], r.heap,
                              pointAttributes,
                              IF r.res # None THEN <<r.res[1]>> \o acc ELSE acc,
                              IF r.res # None THEN <<i>> \o slots ELSE slots)

\* The forEach of collectAndReset from index i on: every item is read and
\* reset in ascending index order and the non-null results are pushed.
\* `slots` records, for each pushed result, the index it came from.
RECURSIVE CollectFrom(_, _, _, _, _, _)
CollectFrom(i, storage, h, pointAttributes, acc, slots) ==
  IF i >= Cardinality(DOMAIN storage)
  THEN [retVal |-> acc, storage |-> storage, heap |-> h, slots |-> slots]
  ELSE LET r == ItemGetAndReset(storage[i], h, pointAttributes) IN
       CollectFrom(i + 1, [storage EXCEPT ![i] = r.item], r.heap, pointAttributes,
                   IF r.res # None THEN Append(acc, r.res[1]) ELSE acc,
                   IF r.res # None THEN Append(slots, i) ELSE slots)

NoOffers == [i \in 0..(_size - 1) |-> None]

\* History: reset() was not invoked.
NoHook == [calls |-> 0, seen |-> None]

\* A Span that was just started: no status, no attributes, not ended.
\* `late` tells whether a status or attribute was set after end().
NewSpan == [status |-> None, attributes |-> <<>>, ends |-> 0, late |-> FALSE]

\* makeGrpcClientRemoteCall(metadataCapture, original, args, metadata, self)
\* returned its closure for a method with original.responseStream =
\* responseStream and arguments that hold the function `callback` ("none"
\* when they hold none); the closure has not run yet.
ClientCallMade(responseStream, callback) ==
  /\ original = [responseStream |-> responseStream]
  /\ args = [callback |-> callback]
  /\ metadata = [traceContext |-> FALSE]
  /\ rpc = [applied |-> FALSE, withTraceContext |-> FALSE, callback |-> "none",
            listeners |-> {}, CALL_SPAN_ENDED |-> FALSE]
  /\ spanEnded = FALSE
  /\ span = NewSpan
  /\ delivered = <<>>
  /\ log = <<>>
  /\ userCallback = <<>>

\* No gRPC client call is made.
NoClientCall == ClientCallMade(FALSE, "none")

\* constructor(size)
Init ==
  /\ _size \in 0..MaxSize
  /\ _reservoirStorage = [i \in 0..(_size - 1) |-> NewStorageItem]
  /\ heap \in [ObjIds -> AttrMaps]
  /\ call = [name |-> "constructor", index |-> -1, thrown |-> FALSE, replaced |-> None]
  /\ retVal = <<>>
  /\ offers = NoOffers
  /\ collected = None
  /\ before = None
  /\ kept = None
  /\ hook = NoHook
  /\ NoClientCall

\* Faulty variant: the offer is also written to the slot after the addressed
\* one.
ForwardOffer_ClobbersNext(value, timestamp, attributes, ctx, index, answer) ==
  IF index \in DOMAIN _reservoirStorage
  THEN /\ _reservoirStorage' =
            [j \in DOMAIN _reservoirStorage |->
               IF j = index \/ j = (index + 1) % _size
               THEN ItemOfferMeasurement(_reservoirStorage[j], value, timestamp,
                                         attributes, ctx)
               ELSE _reservoirStorage[j]]
       /\ offers' = [offers EXCEPT ![index] =
                       Some([value |-> value, timestamp |-> timestamp,
                             attributes |-> heap[attributes], ctx |-> ctx])]
       /\ call' = [name |-> "offerMeasurement", index |-> answer, thrown |-> FALSE,
                   replaced |-> IF offers[index] = None THEN None
                                ELSE Some([value |-> offers[index][1].value,
                                           timestamp |-> offers[index][1].timestamp,
                                           ctx |-> offers[index][1].ctx])]
  ELSE /\ call' = [name |-> "offerMeasurement", index |-> answer, thrown |-> TRUE,
                   replaced |-> None]
       /\ UNCHANGED <<_reservoirStorage, offers>>

\* this._reservoirStorage[index].offerMeasurement(value, timestamp, attributes,
\* ctx), reached when reservoirIndexFor answered `answer`.
\* _reservoirStorage[index] is undefined for an index outside the array, and
\* calling a method on undefined throws a TypeError.  call.replaced is the
\* measurement this offer overwrote, if any.
ForwardOffer(value, timestamp, attributes, ctx, index, answer) ==
  IF index \in DOMAIN _reservoirStorage
  THEN /\ _reservoirStorage' =
            [_reservoirStorage EXCEPT ![index] =
               ItemOfferMeasurement(@, value, timestamp, attributes, ctx)]
       /\ offers' = [offers EXCEPT ![index] =
                       Some([value |-> value, timestamp |-> timestamp,
                             attributes |-> heap[attributes], ctx |-> ctx])]
       /\ call' = [name |-> "offerMeasurement", index |-> answer, thrown |-> FALSE,
                   replaced |-> IF offers[index] = None THEN None
                                ELSE Some([value |-> offers[index][1].value,
                                           timestamp |-> offers[index][1].timestamp,
                                           ctx |-> offers[index][1].ctx])]
  ELSE /\ call' = [name |-> "offerMeasurement", index |-> answer, thrown |-> TRUE,
                   replaced |-> None]
       /\ UNCHANGED <<_reservoirStorage, offers>>

\* Faulty variant: the sentinel -1 addresses the last slot instead of dropping.
OfferMeasurement_SentinelWraps(value, timestamp, attributes, ctx, index) ==
  /\ ForwardOffer(value, timestamp, attributes, ctx,
                  IF index = -1 THEN _size - 1 ELSE index, index)
  /\ retVal' = <<>>
  /\ collected' = None
  /\ before' = IF index = -1
               THEN Some([storage |-> _reservoirStorage, heap |-> heap])
               ELSE None
  /\ hook' = NoHook
  /\ UNCHANGED <<_size, heap, kept>>
  /\ UNCHANGED clientVars

\* offerMeasurement(value, timestamp, attributes, ctx) when reservoirIndexFor
\* answers `index`.
OfferMeasurement(value, timestamp, attributes, ctx, index) ==
  /\ IF index # -1
     THEN ForwardOffer(value, timestamp, attributes, ctx, index, index)
     ELSE /\ call' = [name |-> "offerMeasurement", index |-> index, thrown |-> FALSE,
                      replaced |-> None]
          /\ UNCHANGED <<_reservoirStorage, offers>>
  /\ retVal' = <<>>
  /\ collected' = None
  /\ before' = IF index = -1
               THEN Some([storage |-> _reservoirStorage, heap |-> heap])
               ELSE None
  /\ hook' = NoHook
  /\ UNCHANGED <<_size, heap, kept>>
  /\ UNCHANGED clientVars

\* reset(): the default hook does nothing.
Reset(storage) == storage

\* History: the call that ran before a collectAndReset; in detail when it
\* overwrote a pending measurement by a different one, its name alone
\* otherwise.
Prior ==
  IF /\ call.replaced # None
     /\ call.replaced[1] # [value |-> offers[call.index][1].value,
                            timestamp |-> offers[call.index][1].timestamp,
                            ctx |-> offers[call.index][1].ctx]
  THEN call
  ELSE [name |-> call.name, index |-> -1, thrown |-> FALSE, replaced |-> None]

\* Faulty variant: reset() is invoked before the slots are drained.
CollectAndReset_ResetFirst(pointAttributes) ==
  LET r == CollectFrom(0, Reset(_reservoirStorage), heap, pointAttributes, <<>>, <<>>) IN
  /\ _reservoirStorage' = r.storage
  /\ hook' = [calls |-> 1, seen |-> Some(_reservoirStorage)]
  /\ heap' = r.heap
  /\ retVal' = r.retVal
  /\ call' = [name |-> "collectAndReset", index |-> -1, thrown |-> FALSE, replaced |-> None]
  /\ collected' = Some([pointAttributes |-> pointAttributes, offers |-> offers,
                        slots |-> r.slots, prior |-> Prior, returned |-> Len(retVal)])
  /\ offers' = NoOffers
  /\ before' = None
  /\ UNCHANGED <<_size, kept>>
  /\ UNCHANGED clientVars

\* collectAndReset(pointAttributes): `hook` records the invocation of
\* reset() and the slots as reset() found them.
CollectAndReset(pointAttributes) ==
  LET r == CollectFrom(0, _reservoirStorage, heap, pointAttributes, <<>>, <<>>) IN
  /\ _reservoirStorage' = Reset(r.storage)
  /\ hook' = [calls |-> 1, seen |-> Some(r.storage)]
  /\ heap' = r.heap
  /\ retVal' = r.retVal
  /\ call' = [name |-> "collectAndReset", index |-> -1, thrown |-> FALSE, replaced |-> None]
  /\ collected' = Some([pointAttributes |-> pointAttributes, offers |-> offers,
                        slots |-> r.slots, prior |-> Prior, returned |-> Len(retVal)])
  /\ offers' = NoOffers
  /\ before' = None
  /\ UNCHANGED <<_size, kept>>
  /\ UNCHANGED clientVars

Offer ==
  \E m \in Measurements, attributes \in ObjIds, index \in Indices :
    OfferMeasurement(m.value, m.timestamp, attributes, m.ctx, index)

Collect == \E pointAttributes \in AttrMaps : CollectAndReset(pointAttributes)

Next == Offer \/ Collect

Spec == Init /\ [][Next]_vars

\* The collector keeps one of the exemplars collectAndReset just returned,
\* and remembers what it read in it.
Retain ==
  /\ call.name = "collectAndReset"
  /\ kept = None
  /\ \E k \in 1..Len(retVal) :
       kept' = Some([exemplar |-> retVal[k],
                     seen |-> [retVal[k] EXCEPT !.filteredAttributes = heap[@]]])
  /\ UNCHANGED <<_size, _reservoirStorage, heap, call, retVal, offers, collected, before, hook>>
  /\ UNCHANGED clientVars

\* A reservoir of capacity 1, whose collector may keep an exemplar.
InitKeep == Init /\ _size = 1

NextKeep == Offer \/ Collect \/ Retain

SpecKeep == InitKeep /\ [][NextKeep]_vars

\* maxSize(): answers _size.
MaxSizeCall ==
  /\ call' = [name |-> "maxSize", index |-> -1, thrown |-> FALSE, replaced |-> None]
  /\ retVal' = <<>>
  /\ collected' = None
  /\ before' = None
  /\ hook' = NoHook
  /\ UNCHANGED <<_size, _reservoirStorage, heap, offers, kept>>
  /\ UNCHANGED clientVars

NextHook == Offer \/ Collect \/ MaxSizeCall

\* The reservoir with all three of its operations.
SpecHook == Init /\ [][NextHook]_vars

\* -------------------------------------------------- makeGrpcClientRemoteCall
\* obj[key] = value on an attribute map.
Put(obj, key, value) ==
  [k \in DOMAIN obj \cup {key} |-> IF k = key THEN value ELSE obj[k]]

\* span.setStatus(status)
SetStatus(s, status) ==
  [s EXCEPT !.status = Some(status), !.late = @ \/ s.ends > 0]

\* span.setAttribute(key, value)
SetAttribute(s, key, value) ==
  [s EXCEPT !.attributes = Put(@, key, value), !.late = @ \/ s.ends > 0]

\* span.end()
End(s) == [s EXCEPT !.ends = @ + 1]

\* _grpcStatusCodeToSpanStatus(code) of ../utils, as the status it yields.
GrpcStatusCodeToSpanStatus(code) ==
  [of |-> "_grpcStatusCodeToSpanStatus", grpc |-> Some(code), message |-> Undefined]

\* { code: _grpcStatusCodeToOpenTelemetryStatusCode(code), message }
GrpcStatusCodeToOpenTelemetryStatus(code, message) ==
  [of |-> "_grpcStatusCodeToOpenTelemetryStatusCode", grpc |-> Some(code),
   message |-> message]

\* { code: SpanStatusCode.UNSET }
StatusUnset == [of |-> "SpanStatusCode.UNSET", grpc |-> None, message |-> Undefined]

\* setSpanContext(metadata): propagation.inject(context.active(), metadata, ...)
SetSpanContext(md) == [md EXCEPT !.traceContext = TRUE]

\* Faulty variant: the user's callback is invoked before the span is ended.
PatchedCallback_CallbackBeforeEnd(s, ucb, err, res) ==
  LET s1 == IF err # None
            THEN SetAttribute(
                   SetAttribute(
                     SetAttribute(
                       SetStatus(s, GrpcStatusCodeToSpanStatus(err[1].code)),
                       "rpc.grpc.status_code", err[1].code),
                     "grpc.error_name", err[1].name),
                   "grpc.error_message", err[1].message)
            ELSE SetAttribute(SetStatus(s, StatusUnset),
                              "rpc.grpc.status_code", GRPC_STATUS_CODE_OK)
  IN [span |-> End(s1),
      log |-> <<"setStatus", "setAttribute", "callback", "end">>,
      userCallback |-> Append(ucb, [err |-> err, res |-> res])]

\* The wrappedFn of patchedCallback(span, callback), invoked with (err, res):
\* the span afterwards, what it did in order, and the invocations of the
\* user's callback afterwards.
PatchedCallback(s, ucb, err, res) ==
  LET s1 == IF err # None
            THEN LET e == err[1]
                     s11 == IF e.code # 0
                            THEN SetAttribute(
                                   SetStatus(s, GrpcStatusCodeToSpanStatus(e.code)),
                                   "rpc.grpc.status_code", e.code)
                            ELSE s
                 IN SetAttribute(SetAttribute(s11, "grpc.error_name", e.name),
                                 "grpc.error_message", e.message)
            ELSE SetAttribute(SetStatus(s, StatusUnset),
                              "rpc.grpc.status_code", GRPC_STATUS_CODE_OK)
      did1 == IF err # None
              THEN (IF err[1].code # 0 THEN <<"setStatus", "setAttribute">> ELSE <<>>)
                     \o <<"setAttributes">>
              ELSE <<"setStatus", "setAttribute">>
  IN [span |-> End(s1),
      log |-> did1 \o <<"end", "callback">>,
      userCallback |-> Append(ucb, [err |-> err, res |-> res])]

\* Faulty variant: endSpan() sets spanEnded without ending the span.
EndSpan_NeverEnds(s, ended) ==
  [span |-> s, spanEnded |-> TRUE, log |-> <<>>]

\* endSpan(): ends the span unless spanEnded is set, and sets it.
EndSpan(s, ended) ==
  IF ~ended
  THEN [span |-> End(s), spanEnded |-> TRUE, log |-> <<"end">>]
  ELSE [span |-> s, spanEnded |-> ended, log |-> <<>>]

\* The closure makeGrpcClientRemoteCall returns, invoked with the span: it
\* patches the callback of a unary or client-stream call, injects the trace
\* context, invokes the original client method and registers the listeners.
Invoke ==
  /\ ~rpc.applied
  /\ LET args1 == IF ~original.responseStream /\ args.callback = "user"
                  THEN [callback |-> "patched"]
                  ELSE args
         metadata1 == SetSpanContext(metadata)
     IN /\ args' = args1
        /\ metadata' = metadata1
        /\ rpc' = [applied |-> TRUE,
                   withTraceContext |-> metadata1.traceContext,
                   callback |-> args1.callback,
                   listeners |-> {"metadata"} \cup
                                 (IF original.responseStream
                                  THEN {"error", "status"} ELSE {}),
                   CALL_SPAN_ENDED |-> FALSE]
  /\ spanEnded' = FALSE
  /\ log' = <<>>
  /\ UNCHANGED <<original, span, delivered, userCallback>>
  /\ UNCHANGED reservoirVars

\* gRPC emits 'metadata' (once, before the call completes);
\* metadataCapture.client.captureResponseMetadata records the response
\* headers it is configured for, if any, as a span attribute.
OnMetadata(captured) ==
  /\ "metadata" \in rpc.listeners
  /\ Len(delivered) < MaxEvents
  /\ delivered = <<>>
  /\ span' = IF captured
             THEN SetAttribute(span, "rpc.response.metadata", "header")
             ELSE span
  /\ log' = IF captured THEN <<"setAttribute">> ELSE <<>>
  /\ delivered' = Append(delivered, [event |-> "metadata", with |-> <<>>])
  /\ UNCHANGED <<original, args, metadata, rpc, spanEnded, userCallback>>
  /\ UNCHANGED reservoirVars

\* Faulty variant: the listener of 'error' does not test call[CALL_SPAN_ENDED].
OnError_Unguarded(err) ==
  /\ "error" \in rpc.listeners
  /\ Len(delivered) < MaxEvents
  /\ delivered' = Append(delivered, [event |-> "error", with |-> <<err>>])
  /\ LET s1 == SetStatus(span,
                 GrpcStatusCodeToOpenTelemetryStatus(err.code, err.message))
         s2 == SetAttribute(
                 SetAttribute(
                   SetAttribute(s1, "grpc.error_name", err.name),
                   "grpc.error_message", err.message),
                 "rpc.grpc.status_code", err.code)
         e == EndSpan(s2, spanEnded)
     IN /\ rpc' = [rpc EXCEPT !.CALL_SPAN_ENDED = TRUE]
        /\ span' = e.span
        /\ spanEnded' = e.spanEnded
        /\ log' = <<"setStatus", "setAttributes">> \o e.log
  /\ UNCHANGED <<original, args, metadata, userCallback>>
  /\ UNCHANGED reservoirVars

\* The listener of 'error', when gRPC emits 'error' with err.
OnError(err) ==
  /\ "error" \in rpc.listeners
  /\ Len(delivered) < MaxEvents
  /\ delivered' = Append(delivered, [event |-> "error", with |-> <<err>>])
  /\ IF rpc.CALL_SPAN_ENDED
     THEN /\ log' = <<>>
          /\ UNCHANGED <<rpc, span, spanEnded>>
     ELSE LET s1 == SetStatus(span,
                      GrpcStatusCodeToOpenTelemetryStatus(err.code, err.message))
              s2 == SetAttribute(
                      SetAttribute(
                        SetAttribute(s1, "grpc.error_name", err.name),
                        "grpc.error_message", err.message),
                      "rpc.grpc.status_code", err.code)
              e == EndSpan(s2, spanEnded)
          IN /\ rpc' = [rpc EXCEPT !.CALL_SPAN_ENDED = TRUE]
             /\ span' = e.span
             /\ spanEnded' = e.spanEnded
             /\ log' = <<"setStatus", "setAttributes">> \o e.log
  /\ UNCHANGED <<original, args, metadata, userCallback>>
  /\ UNCHANGED reservoirVars

\* The listener of 'status', when gRPC emits 'status' with status.
OnStatus(status) ==
  /\ "status" \in rpc.listeners
  /\ Len(delivered) < MaxEvents
  /\ delivered' = Append(delivered, [event |-> "status", with |-> <<status>>])
  /\ IF rpc.CALL_SPAN_ENDED
     THEN /\ log' = <<>>
          /\ UNCHANGED <<rpc, span, spanEnded>>
     ELSE LET s1 == SetStatus(span, GrpcStatusCodeToSpanStatus(status.code))
              s2 == SetAttribute(s1, "rpc.grpc.status_code", status.code)
              e == EndSpan(s2, spanEnded)
          IN /\ rpc' = [rpc EXCEPT !.CALL_SPAN_ENDED = TRUE]
             /\ span' = e.span
             /\ spanEnded' = e.spanEnded
             /\ log' = <<"setStatus", "setAttribute">> \o e.log
  /\ UNCHANGED <<original, args, metadata, userCallback>>
  /\ UNCHANGED reservoirVars

\* gRPC passes (err, res) to the callback among the arguments, once; here
\* that callback is the patched one.
OnCallback(err, res) ==
  /\ rpc.applied
  /\ rpc.callback = "patched"
  /\ Len(delivered) < MaxEvents
  /\ \A k \in 1..Len(delivered) : delivered[k].event # "callback"
  /\ LET r == PatchedCallback(span, userCallback, err, res) IN
       /\ span' = r.span
       /\ log' = r.log
       /\ userCallback' = r.userCallback
  /\ delivered' = Append(delivered,
                         [event |-> "callback", with |-> <<err, res>>])
  /\ UNCHANGED <<original, args, metadata, rpc, spanEnded>>
  /\ UNCHANGED reservoirVars

EmitMetadata == \E captured \in BOOLEAN : OnMetadata(captured)
EmitError == \E err \in ServiceErrors : OnError(err)
EmitStatus == \E status \in StatusObjects : OnStatus(status)
Callback == \E r \in CallbackResults : OnCallback(r.err, r.res)

\* A client call of any kind, with or without a callback among its
\* arguments; no reservoir is used.
InitClient ==
  /\ _size = 0
  /\ _reservoirStorage = [i \in 0..(_size - 1) |-> NewStorageItem]
  /\ heap = [o \in ObjIds |-> <<>>]
  /\ call = [name |-> "constructor", index |-> -1, thrown |-> FALSE, replaced |-> None]
  /\ retVal = <<>>
  /\ offers = NoOffers
  /\ collected = None
  /\ before = None
  /\ kept = None
  /\ hook = NoHook
  /\ \E responseStream \in BOOLEAN, callback \in {"none", "user"} :
       ClientCallMade(responseStream, callback)

NextClient == Invoke \/ EmitMetadata \/ EmitError \/ EmitStatus \/ Callback

SpecClient == InitClient /\ [][NextClient]_vars

\* ------------------------------------------------------------------ claims
AfterCollect == call.name = "collectAndReset"

\* The period the last collectAndReset closed.
Period == collected[1]

\* The slots that were offered a measurement in the closed period.
OfferedSlots == {i \in DOMAIN Period.offers : Period.offers[i] # None}

\* The last offer forwarded to the slot the k-th returned exemplar came from.
LastOffer(k) == Period.offers[Period.slots[k]][1]

\* What a reader of exemplar e finds in it.
View(e) == [e EXCEPT !.filteredAttributes = heap[@]]

\* The pairs of A whose key is not in P or has another value in P.
ExpectedFiltered(A, P) ==
  [k \in {x \in DOMAIN A : x \notin DOMAIN P \/ P[x] # A[x]} |-> A[k]]

\* C1: collectAndReset returns at most _size exemplars, exactly one for each
\* slot that was offered a measurement since the previous collectAndReset (or
\* since construction), each from a distinct slot; with no such offer it
\* returns the empty sequence.
C1_OnePerOfferedSlot ==
  AfterCollect =>
    /\ Len(retVal) <= _size
    /\ Len(Period.slots) = Len(retVal)
    /\ \A j, k \in 1..Len(retVal) : j # k => Period.slots[j] # Period.slots[k]
    /\ {Period.slots[k] : k \in 1..Len(retVal)} = OfferedSlots
    /\ (OfferedSlots = {} => retVal = <<>>)

\* C1 witness: a collectAndReset that returned some exemplars, but fewer than
\* the capacity, because only some slots were offered a measurement.
C1_Witness ==
  /\ AfterCollect
  /\ Len(retVal) >= 1
  /\ Len(retVal) < _size
  /\ OfferedSlots # {}

\* C2: after collectAndReset every slot is EMPTY (as constructed), and a
\* collectAndReset that directly follows a collectAndReset returns the empty
\* sequence, whatever the first returned and whatever point attributes are
\* passed.
C2_SecondCollectEmpty ==
  AfterCollect =>
    /\ \A i \in DOMAIN _reservoirStorage : _reservoirStorage[i] = NewStorageItem
    /\ (Period.prior.name = "collectAndReset" => retVal = <<>>)

\* C2 witness: a second collectAndReset right after one that returned
\* exemplars.
C2_Witness ==
  /\ AfterCollect
  /\ Period.prior.name = "collectAndReset"
  /\ Period.returned > 0
  /\ retVal = <<>>

\* C3: the exemplar returned for a slot carries the value, timestamp, span id
\* and trace id of the last offer forwarded to that slot, and its attributes
\* are attributes of that offer: nothing of an earlier offer to the slot.
C3_LastWriteWins ==
  AfterCollect =>
    \A k \in 1..Len(retVal) :
      LET o == LastOffer(k)
          e == View(retVal[k])
      IN /\ e.value = o.value
         /\ e.timestamp = o.timestamp
         /\ e.spanId = (IF o.ctx.span = None THEN Undefined ELSE o.ctx.span[1].spanId)
         /\ e.traceId = (IF o.ctx.span = None THEN Undefined ELSE o.ctx.span[1].traceId)
         /\ \A key \in DOMAIN e.filteredAttributes :
              /\ key \in DOMAIN o.attributes
              /\ e.filteredAttributes[key] = o.attributes[key]
         /\ \A key \in DOMAIN o.attributes \ DOMAIN e.filteredAttributes :
              key \in DOMAIN Period.pointAttributes

\* C3 witness: the last call before the collectAndReset overwrote, in a slot,
\* a measurement with another value, timestamp and context, and the slot's
\* exemplar was returned.
C3_Witness ==
  /\ AfterCollect
  /\ Period.prior.name = "offerMeasurement"
  /\ Period.prior.replaced # None
  /\ \E k \in 1..Len(retVal) :
       /\ Period.slots[k] = Period.prior.index
       /\ Period.prior.replaced[1].value # retVal[k].value
       /\ Period.prior.replaced[1].timestamp # retVal[k].timestamp
       /\ Period.prior.replaced[1].ctx # LastOffer(k).ctx

\* C4: an offerMeasurement for which reservoirIndexFor answers -1 changes no
\* slot and no attribute map, and the next collectAndReset returns, for every
\* point attributes, what it would have returned without that offer.
C4_DropIsSideEffectFree ==
  before # None =>
    /\ _reservoirStorage = before[1].storage
    /\ heap = before[1].heap
    /\ \A P \in AttrMaps :
         CollectFrom(0, _reservoirStorage, heap, P, <<>>, <<>>)
           = CollectFrom(0, before[1].storage, before[1].heap, P, <<>>, <<>>)

\* C4 witness: a dropped offer while exemplars were pending in the slots.
C4_Witness ==
  /\ before # None
  /\ call.name = "offerMeasurement"
  /\ call.index = -1
  /\ ~call.thrown
  /\ \E i \in DOMAIN _reservoirStorage : _reservoirStorage[i].attributes # NullRef

\* C5: an offerMeasurement for which reservoirIndexFor answers a value
\* outside [0, _size) other than -1 returns normally, without raising.
C5_OutOfRangeIsDrop ==
  (/\ call.name = "offerMeasurement"
   /\ call.index # -1
   /\ call.index \notin 0..(_size - 1)) => ~call.thrown

\* C6: in a reservoir of capacity 0 no offerMeasurement raises, whatever
\* index the strategy answers, and collectAndReset returns the empty sequence.
C6_ZeroCapacityNeverRaises ==
  _size = 0 => (~call.thrown /\ retVal = <<>>)

\* C7: the filteredAttributes of a returned exemplar are exactly the pairs
\* (k, A[k]) of the offered attributes A whose key k is not a key of the point
\* attributes P or has another value in P.
C7_AttributeFiltering ==
  AfterCollect =>
    \A k \in 1..Len(retVal) :
      heap[retVal[k].filteredAttributes]
        = ExpectedFiltered(LastOffer(k).attributes, Period.pointAttributes)

\* C7 witness: the offered attributes have two keys, both keys of the point
\* attributes; one has the same value there and was removed, the other has
\* another value and was kept.
C7_Witness ==
  /\ AfterCollect
  /\ \E k \in 1..Len(retVal) :
       /\ DOMAIN LastOffer(k).attributes = Keys
       /\ DOMAIN Period.pointAttributes = Keys
       /\ Cardinality(DOMAIN heap[retVal[k].filteredAttributes]) = 1

\* C8: collectAndReset returns the exemplars by strictly ascending slot
\* index: the k-th exemplar is that of the k-th smallest offered slot,
\* whatever the order of the offers.
C8_AscendingSlotOrder ==
  AfterCollect =>
    /\ \A j, k \in 1..Len(retVal) : j < k => Period.slots[j] < Period.slots[k]
    /\ \A k \in 1..Len(retVal) :
         /\ Cardinality({i \in OfferedSlots : i < Period.slots[k]}) = k - 1
         /\ retVal[k].value = LastOffer(k).value
         /\ retVal[k].timestamp = LastOffer(k).timestamp

\* C8 witness: the measurement slot 0 holds was offered last, after the one
\* slot 1 holds, the two differ, and slot 0's exemplar is returned first.
C8_Witness ==
  /\ AfterCollect
  /\ Period.prior.name = "offerMeasurement"
  /\ Period.prior.index = 0
  /\ Period.prior.replaced # None
  /\ 1 \in OfferedSlots
  /\ Len(retVal) >= 2
  /\ retVal[1].value # retVal[2].value
  /\ retVal[1].value = Period.offers[0][1].value

\* C9: no later call changes what a reader finds in an exemplar that an
\* earlier collectAndReset returned.
C9_ExemplarImmutable ==
  kept # None => View(kept[1].exemplar) = kept[1].seen

\* C10: a returned exemplar has the span id and trace id of the span context
\* of the last offer forwarded to its slot, and neither when that context
\* carries no span.
C10_TraceLinkage ==
  AfterCollect =>
    \A k \in 1..Len(retVal) :
      LET sc == LastOffer(k).ctx.span IN
      IF sc = None
      THEN retVal[k].spanId = Undefined /\ retVal[k].traceId = Undefined
      ELSE retVal[k].spanId = sc[1].spanId /\ retVal[k].traceId = sc[1].traceId

\* C10 witness: an offer without span overwrote an offer with span, and the
\* slot's exemplar came back without ids.
C10_Witness ==
  /\ AfterCollect
  /\ Period.prior.name = "offerMeasurement"
  /\ Period.prior.replaced # None
  /\ Period.prior.replaced[1].ctx.span # None
  /\ \E k \in 1..Len(retVal) :
       /\ Period.slots[k] = Period.prior.index
       /\ LastOffer(k).ctx.span = None
       /\ retVal[k].spanId = Undefined
       /\ retVal[k].traceId = Undefined

\* The positions in delivered of the completion events of a response stream.
CompletionEvents ==
  {k \in 1..Len(delivered) : delivered[k].event \in {"error", "status"}}

\* C11: on a call with a response stream, span.end() has been called exactly
\* once as soon as an 'error' or 'status' event has been emitted, whatever
\* the number and order of these events, and never before; it is never
\* called a second time.
C11_StreamSpanEndsOnce ==
  original.responseStream =>
    span.ends = (IF CompletionEvents # {} THEN 1 ELSE 0)

\* A response stream on which 'status' and 'error' were both emitted, three
\* completion events in all, and whose span was ended once.
C11_Witness ==
  /\ original.responseStream
  /\ Cardinality(CompletionEvents) = MaxEvents
  /\ {delivered[k].event : k \in CompletionEvents} = {"error", "status"}
  /\ span.ends = 1

\* C12: an accepted offer is reported by at most one collectAndReset, the
\* first one after it, and only if no later offer to its slot came before
\* that collect: a slot holds a measurement exactly when it was offered one
\* since the last collectAndReset, and collectAndReset returns, for exactly
\* the slots offered since the previous one, the last measurement offered.
C12_ExactlyOnceExtraction ==
  /\ \A i \in DOMAIN _reservoirStorage :
       (_reservoirStorage[i].attributes # NullRef) <=> (offers[i] # None)
  /\ AfterCollect =>
       \A i \in DOMAIN Period.offers :
         LET ks == {k \in 1..Len(retVal) : Period.slots[k] = i} IN
         IF Period.offers[i] = None
         THEN ks = {}
         ELSE /\ Cardinality(ks) = 1
              /\ \A k \in ks :
                   /\ retVal[k].value = Period.offers[i][1].value
                   /\ retVal[k].timestamp = Period.offers[i][1].timestamp

\* C12 witness: the previous collectAndReset reported every slot of a
\* reservoir of two or more slots, and this one, with no offer in between,
\* reports none of them again.
C12_Witness ==
  /\ AfterCollect
  /\ _size >= 2
  /\ Period.prior.name = "collectAndReset"
  /\ Period.returned = _size
  /\ Len(retVal) = 0
  /\ \A i \in DOMAIN _reservoirStorage : _reservoirStorage[i].attributes = NullRef

\* C13: collectAndReset invokes reset() exactly once, after every slot has
\* been read and reset and before it returns; offerMeasurement and maxSize do
\* not invoke it; and the default reset() changes no state: the slots are
\* after the call as reset() found them.
C13_ResetHookOncePerCollect ==
  IF AfterCollect
  THEN /\ hook.calls = 1
       /\ hook.seen # None
       /\ \A i \in DOMAIN _reservoirStorage : hook.seen[1][i] = NewStorageItem
       /\ _reservoirStorage = hook.seen[1]
  ELSE hook.calls = 0 /\ hook.seen = None

\* C13 witness: a collectAndReset that drained two or more occupied slots
\* and then invoked reset().
C13_Witness ==
  /\ AfterCollect
  /\ Len(retVal) >= 2
  /\ hook.calls = 1

\* The step is an offerMeasurement that was forwarded to slot i.
ForwardedTo(i) ==
  /\ call'.name = "offerMeasurement"
  /\ ~call'.thrown
  /\ call'.index = i

\* What collectAndReset(P) returns for a slot whose last offer was o.
ExemplarOf(o, P) ==
  [filteredAttributes |-> ExpectedFiltered(o.attributes, P),
   value |-> o.value,
   timestamp |-> o.timestamp,
   spanId |-> OptSpanId(GetSpanContext(o.ctx)),
   traceId |-> OptTraceId(GetSpanContext(o.ctx))]

\* Every other slot is left as it was by an offer forwarded to slot i.
OthersUntouched ==
  \A i \in DOMAIN _reservoirStorage :
    ForwardedTo(i) =>
      /\ \A j \in DOMAIN _reservoirStorage \ {i} :
           _reservoirStorage'[j] = _reservoirStorage[j]
      /\ heap' = heap

\* C14: an offerMeasurement forwarded to slot i changes slot i only: every
\* other slot keeps its occupancy, value, timestamp, attributes, span id and
\* trace id, and no attribute map changes; and the exemplar collectAndReset
\* returns for a slot is the one of that slot's own last offer, whatever was
\* offered to the other slots.
C14_SlotIndependence ==
  /\ [][OthersUntouched]_vars
  /\ [](AfterCollect =>
          \A k \in 1..Len(retVal) :
            View(retVal[k]) = ExemplarOf(LastOffer(k), Period.pointAttributes))

\* C14 witness: an offer was forwarded to a slot while another slot held a
\* measurement with the same attributes object and another value.
C14_Witness ==
  /\ call.name = "offerMeasurement"
  /\ ~call.thrown
  /\ call.index \in DOMAIN _reservoirStorage
  /\ \E j \in DOMAIN _reservoirStorage \ {call.index} :
       /\ _reservoirStorage[j].attributes = _reservoirStorage[call.index].attributes
       /\ _reservoirStorage[j].value # _reservoirStorage[call.index].value

\* C15: when two offerMeasurement calls target the same slot, the slot holds
\* afterwards the value, timestamp, attributes, span id and trace id of one
\* of them, the one that ran last, never fields of both: every slot offered
\* a measurement holds all five fields of the last offer forwarded to it.
C15_SameSlotNoMixture ==
  \A j \in DOMAIN _reservoirStorage :
    offers[j] # None =>
      LET o == offers[j][1]
          item == _reservoirStorage[j]
      IN /\ item.value = o.value
         /\ item.timestamp = o.timestamp
         /\ item.attributes # NullRef
         /\ heap[item.attributes] = o.attributes
         /\ item.spanId = (IF o.ctx.span = None THEN Undefined
                           ELSE o.ctx.span[1].spanId)
         /\ item.traceId = (IF o.ctx.span = None THEN Undefined
                            ELSE o.ctx.span[1].traceId)

\* C15 witness: two offers in a row went to the same slot, with different
\* values, timestamps and contexts, and the slot holds the second one.
C15_Witness ==
  /\ call.name = "offerMeasurement"
  /\ ~call.thrown
  /\ call.index \in DOMAIN _reservoirStorage
  /\ call.replaced # None
  /\ call.replaced[1].value # _reservoirStorage[call.index].value
  /\ call.replaced[1].timestamp # _reservoirStorage[call.index].timestamp
  /\ call.replaced[1].ctx # offers[call.index][1].ctx
  /\ _reservoirStorage[call.index].value = offers[call.index][1].value

\* The offer o has the values a reset slot has: value 0, timestamp [0, 0],
\* an empty attributes map and no span.
EqualsResetDefaults(o) ==
  /\ o.value = 0
  /\ o.timestamp = <<0, 0>>
  /\ o.attributes = <<>>
  /\ o.ctx.span = None

\* The slots whose last offer in the closed period equals the reset defaults.
DefaultOffered == {i \in OfferedSlots : EqualsResetDefaults(Period.offers[i][1])}

\* C16: occupancy does not depend on the stored values: a slot whose last
\* offer had value 0, timestamp [0, 0], an empty attributes map and no span
\* is occupied, and the next collectAndReset returns its exemplar, with
\* these values; a slot that was offered nothing since the last
\* collectAndReset is empty and nothing is returned for it.
C16_OccupancyIgnoresValues ==
  /\ \A i \in DOMAIN _reservoirStorage :
       (offers[i] # None /\ EqualsResetDefaults(offers[i][1]))
         => _reservoirStorage[i].attributes # NullRef
  /\ AfterCollect =>
       /\ \A i \in DefaultOffered :
            \E k \in 1..Len(retVal) :
              /\ Period.slots[k] = i
              /\ View(retVal[k]) = [filteredAttributes |-> <<>>, value |-> 0,
                                    timestamp |-> <<0, 0>>,
                                    spanId |-> Undefined, traceId |-> Undefined]
       /\ \A i \in DOMAIN Period.offers \ OfferedSlots :
            \A k \in 1..Len(retVal) : Period.slots[k] # i

\* C16 witness: one slot was offered a measurement equal to the reset
\* defaults, another slot was offered nothing, and collectAndReset returned
\* the exemplar of the first only.
C16_Witness ==
  /\ AfterCollect
  /\ DefaultOffered # {}
  /\ DOMAIN Period.offers \ OfferedSlots # {}
  /\ Len(retVal) = Cardinality(DefaultOffered)
  /\ retVal[1].value = 0
  /\ retVal[1].timestamp = <<0, 0>>
  /\ heap[retVal[1].filteredAttributes] = <<>>

\* The first completion event emitted on the call.
FirstCompletion ==
  delivered[CHOOSE k \in CompletionEvents : \A j \in CompletionEvents : k <= j]

\* The attributes other than the captured response metadata.
CompletionAttributes ==
  [k \in DOMAIN span.attributes \ {"rpc.response.metadata"} |-> span.attributes[k]]

\* The step delivers an 'error' or 'status' event to a call on which
\* CALL_SPAN_ENDED is set.
LaterCompletion ==
  /\ rpc.CALL_SPAN_ENDED
  /\ Len(delivered') = Len(delivered) + 1
  /\ delivered'[Len(delivered')].event \in {"error", "status"}

\* C17: on a call with a response stream the span has the status and the
\* attributes the first emitted 'error' or 'status' event set; an 'error' or
\* 'status' event emitted once CALL_SPAN_ENDED is set leaves the span as it
\* is; and no status or attribute is set after span.end().
C17_OnlyFirstCompletionSets ==
  /\ [][LaterCompletion => span' = span]_vars
  /\ []((original.responseStream /\ CompletionEvents # {}) =>
          LET f == FirstCompletion IN
          /\ ~span.late
          /\ rpc.CALL_SPAN_ENDED
          /\ IF f.event = "error"
             THEN /\ span.status = Some([of |-> "_grpcStatusCodeToOpenTelemetryStatusCode",
                                         grpc |-> Some(f.with[1].code),
                                         message |-> f.with[1].message])
                  /\ CompletionAttributes =
                       [k \in {"grpc.error_name", "grpc.error_message",
                               "rpc.grpc.status_code"} |->
                          CASE k = "grpc.error_name" -> f.with[1].name
                            [] k = "grpc.error_message" -> f.with[1].message
                            [] OTHER -> f.with[1].code]
             ELSE /\ span.status = Some([of |-> "_grpcStatusCodeToSpanStatus",
                                         grpc |-> Some(f.with[1].code),
                                         message |-> Undefined])
                  /\ CompletionAttributes =
                       [k \in {"rpc.grpc.status_code"} |-> f.with[1].code])

\* C17 witness: 'status' with code 0 was emitted first and an 'error' with
\* another code after it; the span has the status and the code of the first.
C17_Witness ==
  /\ original.responseStream
  /\ Len(delivered) >= 2
  /\ delivered[1].event = "status"
  /\ delivered[1].with[1].code = GRPC_STATUS_CODE_OK
  /\ delivered[2].event = "error"
  /\ span.attributes["rpc.grpc.status_code"] = GRPC_STATUS_CODE_OK
  /\ "grpc.error_name" \notin DOMAIN span.attributes
  /\ span.ends = 1

\* The positions in delivered of the results gRPC passed to the callback.
CallbackEvents ==
  {k \in 1..Len(delivered) : delivered[k].event = "callback"}

\* What the span operations named in log are.
SpanSetters == {"setStatus", "setAttribute", "setAttributes"}

\* C18: on a call without response stream whose arguments contain a
\* callback, the patched callback sets the span's status and attributes,
\* then calls span.end(), and only then invokes the user's callback, once,
\* with the (err, res) it was given; before that the user's callback is not
\* invoked and the span is not ended; and the original client method is
\* invoked with metadata that already carries the trace context.
C18_PatchedCallbackOrder ==
  /\ rpc.applied => rpc.withTraceContext
  /\ (~original.responseStream /\ rpc.callback = "patched") =>
       IF CallbackEvents = {}
       THEN userCallback = <<>> /\ span.ends = 0
       ELSE \A k \in CallbackEvents :
              LET err == delivered[k].with[1]
                  res == delivered[k].with[2]
                  n == Len(log)
              IN /\ userCallback = <<[err |-> err, res |-> res]>>
                 /\ span.ends = 1
                 /\ ~span.late
                 /\ n >= 3
                 /\ log[n] = "callback"
                 /\ log[n - 1] = "end"
                 /\ \A j \in 1..(n - 2) : log[j] \in SpanSetters
                 /\ log[1] = "setStatus"
                 /\ span.status =
                      Some(IF err = None
                           THEN [of |-> "SpanStatusCode.UNSET", grpc |-> None,
                                 message |-> Undefined]
                           ELSE [of |-> "_grpcStatusCodeToSpanStatus",
                                 grpc |-> Some(err[1].code), message |-> Undefined])
                 /\ span.attributes["rpc.grpc.status_code"] =
                      (IF err = None THEN GRPC_STATUS_CODE_OK ELSE err[1].code)
                 /\ (err # None =>
                       /\ span.attributes["grpc.error_name"] = err[1].name
                       /\ span.attributes["grpc.error_message"] = err[1].message)

\* C18 witness: a call without response stream and with a callback, to which
\* gRPC passed an error; the span was ended and the user's callback invoked
\* with that error.
C18_Witness ==
  /\ ~original.responseStream
  /\ rpc.callback = "patched"
  /\ rpc.withTraceContext
  /\ CallbackEvents # {}
  /\ Len(userCallback) = 1
  /\ userCallback[1].err # None
  /\ span.ends = 1
  /\ log = <<"setStatus", "setAttribute", "setAttributes", "end", "callback">>

====
